---------------------------- MODULE Spec2Model ----------------------------
(***************************************************************************)
(* Buy-vs-rent break-even simulation (src/simulation.py).                  *)
(*                                                                         *)
(* Number representation.  The program computes in binary floating point.  *)
(* Here every dollar amount is an integer number of money units, and every *)
(* rate, growth, percentage and compounding factor is a fixed-point number *)
(* with six decimals (the integer x stands for x / SCALE).  Products and   *)
(* quotients are rounded to the nearest representable value, as a float    *)
(* operation is, and are computed in pieces so that no intermediate value  *)
(* leaves 32 bits.  The program's tolerances 1e-12 (rates) and 1e-8         *)
(* (balance) lie below the resolution of the representation, so "differs   *)
(* by more than 1e-12" is "differs" and "balance > 1e-8" is "balance > 0". *)
(*                                                                         *)
(* An Optional value is a sequence: << >> is None, << v >> is the value v. *)
(***************************************************************************)
EXTENDS Integers, Sequences, FiniteSets, TLC

\* ------------------------------------------------------------------------
\* Bounds of the model
\* ------------------------------------------------------------------------
MaxYears == 2          \* largest max_years drawn
MaxTermYears == 2      \* largest term_years drawn
MaxSchedLen == 3       \* longest rate schedule given to the rate resolver
MaxQueryMonth == 6     \* months 0..MaxQueryMonth are asked of the rate resolver

\* ------------------------------------------------------------------------
\* Fixed-point arithmetic
\* ------------------------------------------------------------------------
K == 10 * 10 * 10
SCALE == K * K
MonthsPerYear == 12

None == << >>
Some(v) == << v >>
IsNone(o) == o = << >>
Val(o) == o[1]

Abs(x) == IF x < 0 THEN -x ELSE x
Sgn(x) == IF x < 0 THEN -1 ELSE 1
Max(a, b) == IF a >= b THEN a ELSE b
Min(a, b) == IF a <= b THEN a ELSE b

\* a / b for integers, rounded to the nearest integer (b # 0)
RoundDiv(a, b) == Sgn(a) * Sgn(b) * ((2 * Abs(a) + Abs(b)) \div (2 * Abs(b)))

\* a * f / SCALE for a, f >= 0, rounded to nearest
MulAbs(a, f) ==
    LET ah == a \div K
        al == a % K
        fh == f \div K
        fl == f % K
        mid == ah * fl + al * fh
        rest == (mid % K) * K + al * fl
    IN  ah * fh + mid \div K + (rest + SCALE \div 2) \div SCALE

\* the float product a * f, where f is a fixed-point factor
MulF(a, f) == Sgn(a) * Sgn(f) * MulAbs(Abs(a), Abs(f))

RECURSIVE Pow10(_)
Pow10(n) == IF n = 0 THEN 1 ELSE 10 * Pow10(n - 1)

\* the n decimals of r / f for 0 <= r < f, the last one rounded
RECURSIVE LongDiv(_, _, _)
LongDiv(r, f, n) ==
    IF n = 0 THEN (IF 2 * r >= f THEN 1 ELSE 0)
    ELSE ((r * 10) \div f) * Pow10(n - 1) + LongDiv((r * 10) % f, f, n - 1)

\* the float quotient a / f, where f # 0 is a fixed-point factor
DivF(a, f) ==
    Sgn(a) * Sgn(f) * ((Abs(a) \div Abs(f)) * SCALE + LongDiv(Abs(a) % Abs(f), Abs(f), 6))

\* b ** n for an integer n >= 0
RECURSIVE IPowF(_, _)
IPowF(b, n) == IF n = 0 THEN SCALE ELSE MulF(IPowF(b, n - 1), b)

\* the greatest y in lo..hi with y ** 12 <= t
RECURSIVE Bisect(_, _, _)
Bisect(t, lo, hi) ==
    IF lo >= hi THEN lo
    ELSE LET mid == (lo + hi + 1) \div 2
         IN  IF IPowF(mid, MonthsPerYear) <= t THEN Bisect(t, mid, hi)
             ELSE Bisect(t, lo, mid - 1)

\* base ** (k / 12.0) for base >= 0 and 0 <= k < 12
FracPow(base, k) ==
    IF k = 0 THEN SCALE
    ELSE IF base = 0 THEN 0
    ELSE IF base >= SCALE THEN Bisect(IPowF(base, k), SCALE, base)
    ELSE Bisect(IPowF(base, k), 0, SCALE)


\* ------------------------------------------------------------------------
\* Values the scenarios are drawn from
\* ------------------------------------------------------------------------
Price == 144 * K                       \* purchase_price
Pct(n) == n * 10 * K                   \* n percent as a fixed-point number
GrowthValues == {Pct(-200), Pct(-100), 0, Pct(3), Pct(12)}
PowBases == {SCALE + g : g \in GrowthValues}
MaxMonth == MaxYears * MonthsPerYear

\* ------------------------------------------------------------------------
\* Helpers (src/simulation.py, lines 7-32)
\* ------------------------------------------------------------------------
monthly_rate(annual_rate) == RoundDiv(annual_rate, MonthsPerYear)

\* (1 + r) ** months leaves the program with factor - 1 = 0 and a division by it
PmtRaises(principal, annual_rate, months) ==
    /\ months > 0
    /\ monthly_rate(annual_rate) # 0
    /\ IPowF(SCALE + monthly_rate(annual_rate), months) - SCALE = 0

\* the branch for a rate of 0 taken at every rate
pmt_zero_rate_always(principal, annual_rate, months) ==
    IF months <= 0 THEN 0 ELSE RoundDiv(principal, months)

pmt(principal, annual_rate, months) ==
    IF months <= 0 THEN 0
    ELSE LET r == monthly_rate(annual_rate)
             factor == IPowF(SCALE + r, months)
         IN  IF r = 0 THEN RoundDiv(principal, months)
             ELSE MulF(principal, MulF(r, DivF(factor, factor - SCALE)))

\* base ** (month_index / 12.0) is a complex number for a negative base and a
\* fractional exponent
PowIsComplex(base, month_index) ==
    base < 0 /\ month_index % MonthsPerYear # 0

PowReal(base, month_index) ==
    IF base < 0 THEN IPowF(base, month_index \div MonthsPerYear)
    ELSE MulF(IPowF(base, month_index \div MonthsPerYear),
              FracPow(base, month_index % MonthsPerYear))

PowTable == [b \in PowBases |-> [i \in 0..MaxMonth |-> PowReal(b, i)]]

Pow(base, month_index) == PowTable[base][month_index]

\* month_index / 12 taken as an integer division: growth in yearly steps
grow_monthly_yearly(value0, annual_growth, month_index) ==
    MulF(value0, Pow(SCALE + annual_growth, (month_index \div MonthsPerYear) * MonthsPerYear))

grow_monthly(value0, annual_growth, month_index) ==
    MulF(value0, Pow(SCALE + annual_growth, month_index))

selling_cost(value, sell_cost_pct) == MulF(value, sell_cost_pct)

closing_cost(value, close_cost_pct) == MulF(value, close_cost_pct)

deflator(inflation_annual, month_index) == Pow(SCALE + inflation_annual, month_index)

\* ------------------------------------------------------------------------
\* Rate schedule logic (src/simulation.py, lines 79-92)
\* A schedule is a sequence of <<start_month, rate>> pairs.
\* ------------------------------------------------------------------------
\* the schedule used as given, unsorted
SortedByStart_unsorted(schedule) == schedule

\* x placed behind every entry of the sorted sequence s whose key is <= its own
RECURSIVE InsertByStart(_, _)
InsertByStart(s, x) ==
    IF s = << >> THEN << x >>
    ELSE IF s[Len(s)][1] <= x[1] THEN Append(s, x)
    ELSE Append(InsertByStart(SubSeq(s, 1, Len(s) - 1), x), s[Len(s)])

\* sorted(schedule, key=lambda x: x[0]): a stable sort
RECURSIVE SortedByStart(_)
SortedByStart(schedule) ==
    IF schedule = << >> THEN << >>
    ELSE InsertByStart(SortedByStart(SubSeq(schedule, 1, Len(schedule) - 1)),
                       schedule[Len(schedule)])

\* an entry takes effect only after its start_month
RECURSIVE ScanSchedule_strict(_, _, _, _)
ScanSchedule_strict(schedule_sorted, i, month, current) ==
    IF i > Len(schedule_sorted) THEN current
    ELSE IF month > schedule_sorted[i][1]
         THEN ScanSchedule_strict(schedule_sorted, i + 1, month, schedule_sorted[i][2])
         ELSE current

\* the for loop of lines 87-91 from position i on, with its break
RECURSIVE ScanSchedule(_, _, _, _)
ScanSchedule(schedule_sorted, i, month, current) ==
    IF i > Len(schedule_sorted) THEN current
    ELSE IF month >= schedule_sorted[i][1]
         THEN ScanSchedule(schedule_sorted, i + 1, month, schedule_sorted[i][2])
         ELSE current

\* not schedule: None or the empty list
Falsy(schedule) == IsNone(schedule) \/ Val(schedule) = << >>

RateRaises(fixed_rate, schedule) == IsNone(fixed_rate) /\ Falsy(schedule)

\* a schedule, when given, taken before the fixed rate
rate_for_month_schedule_first(month, fixed_rate, schedule) ==
    IF ~Falsy(schedule)
    THEN LET schedule_sorted == SortedByStart(Val(schedule))
         IN  ScanSchedule(schedule_sorted, 1, month, schedule_sorted[1][2])
    ELSE Val(fixed_rate)

rate_for_month(month, fixed_rate, schedule) ==
    IF ~IsNone(fixed_rate) THEN Val(fixed_rate)
    ELSE LET schedule_sorted == SortedByStart(Val(schedule))
         IN  ScanSchedule(schedule_sorted, 1, month, schedule_sorted[1][2])

\* ------------------------------------------------------------------------
\* Inputs (src/simulation.py, lines 37-74)
\* ------------------------------------------------------------------------
ScenarioParams(down, term, maxy, app, inv, infl, real, fixed, sched, rent, maint, rg, mg, sell) ==
    [purchase_price |-> Price, down_payment |-> down, term_years |-> term,
     home_appreciation |-> app, investment_return |-> inv, inflation |-> infl,
     fixed_mortgage_rate |-> fixed, variable_rate_schedule |-> sched,
     rent_monthly |-> rent, maintenance_monthly |-> maint,
     insurance_monthly |-> 50, other_owner_costs_monthly |-> 0,
     rent_growth |-> rg, maintenance_growth |-> mg,
     insurance_growth |-> Pct(3), other_owner_costs_growth |-> Pct(3),
     buy_closing_cost_pct |-> Pct(2), sell_cost_pct |-> sell,
     max_years |-> maxy, report_real |-> real]

\* mortgage rate sources: <<fixed_mortgage_rate, variable_rate_schedule>>
TwoStep == << <<0, Pct(6)>>, <<6, Pct(12)>> >>
ValidRateSources ==
    { <<Some(0), None>>,
      <<Some(Pct(6)), None>>,
      <<Some(Pct(-6)), None>>,
      <<Some(Pct(6)), Some(TwoStep)>>,
      <<None, Some(TwoStep)>>,
      <<None, Some(<< <<6, Pct(12)>>, <<0, Pct(6)>> >>)>>,
      <<None, Some(<< <<3, Pct(12)>>, <<15, 0>> >>)>>,
      <<None, Some(<< <<0, Pct(6)>>, <<6, 0>>, <<6, Pct(12)>> >>)>> }
MissingRateSources == { <<None, None>>, <<None, Some(<< >>)>> }

Years == 1..MaxYears
TermYears == 1..MaxTermYears

\* scenarios that satisfy the data model, with rates and growths above -100%
MainScenarios ==
    { ScenarioParams(down, term, maxy, app, inv, Pct(3), real, src[1], src[2],
                     rent, 200, Pct(3), Pct(3), sell) :
        down \in {0, Price \div 5, Price}, term \in TermYears, maxy \in Years,
        app \in {0, Pct(12)}, inv \in {0, Pct(6)}, real \in BOOLEAN,
        src \in ValidRateSources, rent \in {0, 1500}, sell \in {0, Pct(6)} }

\* scenarios that satisfy the data model, with a rate or growth of -100% or less
ExtremeScenarios ==
    { ScenarioParams(down, term, maxy, x[1], 0, x[2], real, src[1], src[2],
                     1500, 200, x[3], x[4], Pct(6)) :
        down \in {Price \div 5, Price}, term \in TermYears, maxy \in Years,
        real \in BOOLEAN,
        src \in { <<Some(Pct(6)), None>>, <<None, Some(TwoStep)>> },
        x \in { <<0, Pct(-100), Pct(3), Pct(3)>>,
                <<0, Pct(-200), Pct(3), Pct(3)>>,
                <<Pct(-200), Pct(3), Pct(3), Pct(3)>>,
                <<Pct(-100), Pct(3), Pct(-100), Pct(3)>>,
                <<0, Pct(3), Pct(-200), Pct(3)>>,
                <<0, Pct(3), Pct(3), Pct(-200)>> } }
    \cup
    { ScenarioParams(down, term, maxy, 0, 0, Pct(3), TRUE, src[1], src[2],
                     1500, 200, Pct(3), Pct(3), Pct(6)) :
        down \in {Price \div 5, Price}, term \in TermYears, maxy \in Years,
        src \in { <<None, Some(<< <<0, Pct(6)>>, <<2, Pct(-2400)>> >>)>>,
                  <<None, Some(<< <<0, Pct(6)>>, <<3, Pct(-2400)>> >>)>> } }

\* small loans at a rate below -200% a month, from the start or from a later
\* month on, where the payment falls short of the (negative) interest
ClampScenarios ==
    { ScenarioParams(Price - 400, 1, maxy, 0, 0, Pct(3), real, None, Some(sched),
                     0, 200, Pct(3), Pct(3), Pct(6)) :
        maxy \in Years, real \in BOOLEAN,
        sched \in { << <<0, Pct(6)>>, <<2, Pct(-2520)>> >>,
                    << <<0, Pct(6)>>, <<3, Pct(-2520)>> >> } }
    \cup
    { ScenarioParams(Price - 300, 1, maxy, 0, 0, Pct(3), real, Some(Pct(-2520)), None,
                     0, 200, Pct(3), Pct(3), Pct(6)) :
        maxy \in Years, real \in BOOLEAN }

\* rents around the one at which, in month 4, the owner's nominal net worth is one
\* money unit below the renter's; each in real and in nominal dollars
NearTieScenarios ==
    { ScenarioParams(Price \div 5, 1, maxy, Pct(3), 0, Pct(12), real, Some(Pct(6)), None,
                     rent, 200, Pct(3), Pct(3), Pct(6)) :
        maxy \in Years, real \in BOOLEAN, rent \in {2754, 2755, 2756} }

\* scenarios that break the data model
InvalidScenarios ==
    { ScenarioParams(down, term, maxy, 0, Pct(6), Pct(3), real, src[1], src[2],
                     1500, 200, Pct(3), Pct(3), Pct(6)) :
        down \in {Price \div 5, Price, Price + 1, Price + Price \div 5},
        term \in TermYears, maxy \in Years, real \in BOOLEAN,
        src \in MissingRateSources \cup { <<Some(Pct(6)), None>>, <<None, Some(TwoStep)>> } }

\* scenarios in which owner outflow = rent: all-cash purchases whose only owner
\* cost, maintenance, equals the rent and grows as the rent does (in every month),
\* and loans with costs that do not grow and a rent of payment + maintenance
\* (in every month of the term)
EqualFlowScenarios ==
    { [ScenarioParams(Price, term, maxy, Pct(12), inv, Pct(3), real, Some(Pct(6)), None,
                      1500, 1500, g, g, sell) EXCEPT !.insurance_monthly = 0] :
        term \in TermYears, maxy \in Years, inv \in {0, Pct(12)}, real \in BOOLEAN,
        g \in {0, Pct(3)}, sell \in {0, Pct(6)} }
    \cup
    { [ScenarioParams(Price \div 5, term, maxy, Pct(12), inv, Pct(3), real,
                      Some(Pct(6)), None,
                      pmt(Price - Price \div 5, Pct(6), term * MonthsPerYear) + 1500,
                      1500, 0, 0, sell) EXCEPT !.insurance_monthly = 0] :
        term \in TermYears, maxy \in Years, inv \in {0, Pct(12)}, real \in BOOLEAN,
        sell \in {0, Pct(6)} }

Scenarios ==
    MainScenarios \cup ExtremeScenarios \cup InvalidScenarios \cup EqualFlowScenarios
    \cup ClampScenarios \cup NearTieScenarios

\* ------------------------------------------------------------------------
\* State
\* ------------------------------------------------------------------------
VARIABLES
    params,            \* the ScenarioParams of the call
    pc,                \* "start", "loop", "returned", "raised";
                       \* "resolver", "resolved" for a rate query
    error,             \* the exception raised, "none" if none
    m,                 \* the month the for loop runs next
    iterations,        \* loop bodies run so far
    balance, payment, last_rate, port_rent, port_buy,
    break_even_month,  \* Optional
    history,           \* the checkpoint rows
    loc,               \* the other locals of the last loop body that ran
    trace,             \* of every month simulated: <<nw_buy_cmp, nw_rent_cmp, diff,
                       \* balance after the month, interest exceeded the payment>>
    result,            \* Optional: the returned dictionary
    query, answer      \* a call of rate_for_month on its own and what it gave

vars == <<params, pc, error, m, iterations, balance, payment, last_rate, port_rent,
          port_buy, break_even_month, history, loc, trace, result, query, answer>>

ErrDownPayment == "ValueError: Down payment cannot exceed purchase price."
\* the message of the other check, copied
ErrNoRate_copied == "ValueError: Down payment cannot exceed purchase price."

ErrNoRate == "ValueError: Provide either fixed_mortgage_rate or variable_rate_schedule."
ErrZeroDivision == "ZeroDivisionError: float division by zero"
ErrComplex == "TypeError: not supported between instances of 'float' and 'complex'"

NoLocals ==
    [month |-> -1, current_rate |-> 0, months_remaining |-> 0, recast |-> FALSE,
     rent_t |-> 0, interest |-> 0, principal_paid |-> 0, owner_outflow |-> 0,
     diff |-> 0, home_value |-> 0, liquidation_equity |-> 0,
     nw_buy |-> 0, nw_rent |-> 0, nw_buy_cmp |-> 0, nw_rent_cmp |-> 0]

Idle ==
    /\ error = "none" /\ m = 0 /\ iterations = 0
    /\ balance = 0 /\ payment = 0 /\ last_rate = 0 /\ port_rent = 0 /\ port_buy = 0
    /\ break_even_month = None /\ history = << >> /\ loc = NoLocals
    /\ trace = << >> /\ result = None /\ query = None /\ answer = None

Init ==
    /\ params \in Scenarios
    /\ pc = "start"
    /\ Idle

\* the down payment not taken off the price
L0_full_price == params.purchase_price

\* line 100: the loan principal
L0 == params.purchase_price - params.down_payment

term_months == params.term_years * MonthsPerYear

\* a loop that runs one month too many
horizon_months_off == params.max_years * MonthsPerYear + 1

horizon_months == params.max_years * MonthsPerYear

\* ------------------------------------------------------------------------
\* simulate_break_even (src/simulation.py, lines 97-229)
\* ------------------------------------------------------------------------
Raise(e) ==
    /\ pc' = "raised"
    /\ error' = e
    /\ UNCHANGED <<params, m, iterations, balance, payment, last_rate, port_rent,
                   port_buy, break_even_month, history, loc, trace, result,
                   query, answer>>

\* lines 98-128: the checks and the state before the loop
Begin ==
    /\ pc = "start"
    /\ LET P0 == params.purchase_price
           D == params.down_payment
           buy_close == closing_cost(P0, params.buy_closing_cost_pct)
           upfront_buy_cash == D + buy_close
           initial_rate == rate_for_month(0, params.fixed_mortgage_rate,
                                          params.variable_rate_schedule)
       IN  IF L0 < 0 THEN Raise(ErrDownPayment)
           ELSE IF RateRaises(params.fixed_mortgage_rate, params.variable_rate_schedule)
           THEN Raise(ErrNoRate)
           ELSE IF PmtRaises(L0, initial_rate, term_months) THEN Raise(ErrZeroDivision)
           ELSE /\ pc' = "loop"
                /\ port_rent' = upfront_buy_cash
                /\ port_buy' = 0
                /\ balance' = L0
                /\ payment' = pmt(L0, initial_rate, term_months)
                /\ break_even_month' = None
                /\ history' = << >>
                /\ last_rate' = initial_rate
                /\ m' = 0
                /\ UNCHANGED <<params, error, iterations, loc, trace, result,
                               query, answer>>

\* lines 218-229
Result(bem, hist) ==
    [break_even_month |-> bem,
     break_even_years |-> IF IsNone(bem) THEN None
                          ELSE Some(RoundDiv(Val(bem) * SCALE, MonthsPerYear)),
     used_real_dollars |-> params.report_real,
     history |-> hist,
     assumptions |->
        [upfront_buy_cash |-> params.down_payment
                              + closing_cost(params.purchase_price,
                                             params.buy_closing_cost_pct),
         buy_closing_cost |-> closing_cost(params.purchase_price,
                                           params.buy_closing_cost_pct),
         sell_cost_pct |-> params.sell_cost_pct,
         buy_closing_cost_pct |-> params.buy_closing_cost_pct]]

\* the comparison turned around
Crossed_flipped(bem, nw_buy_cmp, nw_rent_cmp) == IsNone(bem) /\ nw_buy_cmp <= nw_rent_cmp

\* line 196: the break-even test of one month
Crossed(bem, nw_buy_cmp, nw_rent_cmp) == IsNone(bem) /\ nw_buy_cmp >= nw_rent_cmp

\* rows at the anniversaries only
Checkpoint_annual(mm, bem) == mm % MonthsPerYear = 0

\* line 199: whether month mm gets a history row
Checkpoint(mm, bem) == mm % MonthsPerYear = 0 \/ bem = Some(mm)

\* the loop left one month after the break-even month
Stop_month_late(mm, bem) == ~IsNone(bem) /\ mm > Val(bem)

\* line 215: whether the loop is left after month mm
Stop(mm, bem) == ~IsNone(bem) /\ mm >= Val(bem)

\* negative amortization: a shortfall of the payment added to the balance
principal_reduction_unclamped(pay, interest, bal) == Min(pay - interest, bal)

\* lines 153-154: the principal paid in a month, clamped to 0..balance
principal_reduction(pay, interest, bal) == Min(Max(pay - interest, 0), bal)

\* the renter's portfolio takes the difference of either sign: a withdrawal when
\* renting costs more
renter_cash_signed(diff) == diff

\* lines 172-174: the cash the renter's portfolio receives in a month
renter_cash(diff) == IF diff > 0 THEN diff ELSE 0

\* lines 175-177: the cash the owner's portfolio receives in a month
owner_cash(diff) == IF diff > 0 THEN 0 ELSE -diff

\* the remaining balance amortized over the original term at a rate change
Recast_original_term(current_rate, months_remaining) ==
    IF current_rate # last_rate
    THEN (IF months_remaining > 0 THEN pmt(balance, current_rate, term_months) ELSE 0)
    ELSE payment

\* lines 135-138: the payment of month mm
Recast(current_rate, months_remaining) ==
    IF current_rate # last_rate
    THEN (IF months_remaining > 0 THEN pmt(balance, current_rate, months_remaining) ELSE 0)
    ELSE payment

\* lines 130-216: one body of the loop, and lines 218-229 when the loop is left.
\* Each local is bound once, in the order of the assignments of the body.
Month ==
    /\ pc = "loop"
    /\ m <= horizon_months
    /\ \E current_rate \in {rate_for_month(m, params.fixed_mortgage_rate,
                                           params.variable_rate_schedule)} :
       LET months_remaining == Max(term_months - m, 0)
           recast == current_rate # last_rate
           \* the exceptions of the body, in the order of the lines that raise them
           costs_complex ==
               \/ PowIsComplex(SCALE + params.rent_growth, m)
               \/ PowIsComplex(SCALE + params.maintenance_growth, m)
               \/ PowIsComplex(SCALE + params.insurance_growth, m)
               \/ PowIsComplex(SCALE + params.other_owner_costs_growth, m)
           home_complex == PowIsComplex(SCALE + params.home_appreciation, m)
           defl_complex == params.report_real /\ PowIsComplex(SCALE + params.inflation, m)
           defl_zero == /\ params.report_real
                        /\ ~defl_complex
                        /\ deflator(params.inflation, m) = 0
       IN  IF recast /\ PmtRaises(balance, current_rate, months_remaining)
           THEN Raise(ErrZeroDivision)                       \* line 137
           ELSE IF costs_complex THEN Raise(ErrComplex)      \* line 170
           ELSE IF home_complex THEN Raise(ErrComplex)       \* line 182
           ELSE IF defl_zero THEN Raise(ErrZeroDivision)     \* line 190
           ELSE IF defl_complex THEN Raise(ErrComplex)       \* line 196
           ELSE
           \E payment1 \in {Recast(current_rate, months_remaining)} :
           \E rent_t \in {grow_monthly(params.rent_monthly, params.rent_growth, m)} :
           \E maint_t \in {grow_monthly(params.maintenance_monthly,
                                        params.maintenance_growth, m)} :
           \E ins_t \in {grow_monthly(params.insurance_monthly,
                                      params.insurance_growth, m)} :
           \E other_t \in {grow_monthly(params.other_owner_costs_monthly,
                                        params.other_owner_costs_growth, m)} :
           \E amortize \in {m < term_months /\ balance > 0} :
           \E interest \in {IF amortize
                            THEN MulF(balance, monthly_rate(current_rate)) ELSE 0} :
           \E principal_paid \in {IF amortize
                                  THEN principal_reduction(payment1, interest, balance)
                                  ELSE 0} :
           \E balance1 \in {balance - principal_paid} :
           \E owner_outflow \in {(IF m < term_months THEN payment1 ELSE 0)
                                 + maint_t + ins_t + other_t} :
           \E diff \in {owner_outflow - rent_t} :
           \E growth \in {SCALE + monthly_rate(params.investment_return)} :
           \E port_rent1 \in {MulF(port_rent, growth) + MulF(Max(diff, 0), 0)
                              + renter_cash(diff)} :
           \E port_buy1 \in {MulF(port_buy, growth) + owner_cash(diff)} :
           \E home_value \in {grow_monthly(params.purchase_price,
                                           params.home_appreciation, m)} :
           \E net_sale_proceeds \in {home_value
                                     - selling_cost(home_value, params.sell_cost_pct)} :
           \E liquidation_equity \in {Max(net_sale_proceeds - balance1, 0)} :
           \E nw_buy \in {liquidation_equity + port_buy1} :
           \E nw_rent \in {port_rent1} :
           \E nw_buy_cmp \in {IF params.report_real
                              THEN DivF(nw_buy, deflator(params.inflation, m))
                              ELSE nw_buy} :
           \E nw_rent_cmp \in {IF params.report_real
                               THEN DivF(nw_rent, deflator(params.inflation, m))
                               ELSE nw_rent} :
           \E bem1 \in {IF Crossed(break_even_month, nw_buy_cmp, nw_rent_cmp)
                        THEN Some(m) ELSE break_even_month} :
           \E history1 \in {IF Checkpoint(m, bem1)
                            THEN Append(history,
                                        [month |-> m,
                                         year |-> RoundDiv(m * SCALE, MonthsPerYear),
                                         mortgage_rate |-> current_rate,
                                         mortgage_balance |-> balance1,
                                         home_value |-> home_value,
                                         owner_outflow |-> owner_outflow,
                                         rent |-> rent_t,
                                         nw_buy |-> nw_buy_cmp,
                                         nw_rent |-> nw_rent_cmp])
                            ELSE history} :
                /\ payment' = payment1
                /\ last_rate' = IF recast THEN current_rate ELSE last_rate
                /\ balance' = balance1
                /\ port_rent' = port_rent1
                /\ port_buy' = port_buy1
                /\ break_even_month' = bem1
                /\ history' = history1
                /\ iterations' = iterations + 1
                /\ trace' = Append(trace, <<nw_buy_cmp, nw_rent_cmp, diff, balance1,
                                           amortize /\ interest > payment1>>)
                /\ loc' = [month |-> m, current_rate |-> current_rate,
                           months_remaining |-> months_remaining, recast |-> recast,
                           rent_t |-> rent_t, interest |-> interest,
                           principal_paid |-> principal_paid,
                           owner_outflow |-> owner_outflow, diff |-> diff,
                           home_value |-> home_value,
                           liquidation_equity |-> liquidation_equity,
                           nw_buy |-> nw_buy, nw_rent |-> nw_rent,
                           nw_buy_cmp |-> nw_buy_cmp, nw_rent_cmp |-> nw_rent_cmp]
                /\ IF Stop(m, bem1) \/ m = horizon_months
                   THEN /\ pc' = "returned"
                        /\ result' = Some(Result(bem1, history1))
                        /\ m' = m
                   ELSE /\ pc' = "loop"
                        /\ result' = result
                        /\ m' = m + 1
                /\ UNCHANGED <<params, error, query, answer>>

Next == Begin \/ Month

Spec == Init /\ [][Next]_vars

\* ------------------------------------------------------------------------
\* The rate resolver called on its own: rate_for_month(month, fixed_rate, schedule)
\* ------------------------------------------------------------------------
\* the schedule of the comment at line 50
ExampleSchedule == << <<0, 65 * K>>, <<24, 75 * K>>, <<60, Pct(6)>> >>
ExampleMonths == {0, 23, 24, 59, 60, 1000}

RateEntries == {0, 2, 4} \X {Pct(6), Pct(7)}
RateSchedules == UNION { [1..n -> RateEntries] : n \in 0..MaxSchedLen }
QueryMonths == 0..MaxQueryMonth

RateInit ==
    /\ params = ScenarioParams(Price \div 5, 1, 1, 0, 0, Pct(3), TRUE, Some(Pct(6)), None,
                               1500, 200, Pct(3), Pct(3), Pct(6))
    /\ pc = "resolver"
    /\ Idle

Resolve ==
    /\ pc = "resolver"
    /\ \E fixed_rate \in {None, Some(Pct(5))} :
       \E input \in (QueryMonths \X ({None} \cup {Some(s) : s \in RateSchedules}))
                    \cup (ExampleMonths \X {Some(ExampleSchedule)}) :
          /\ pc' = "resolved"
          /\ query' = Some([month |-> input[1], fixed_rate |-> fixed_rate,
                            schedule |-> input[2]])
          /\ answer' = IF RateRaises(fixed_rate, input[2])
                       THEN Some([error |-> ErrNoRate, rate |-> None])
                       ELSE Some([error |-> "none",
                                  rate |-> Some(rate_for_month(input[1], fixed_rate,
                                                               input[2]))])
    /\ UNCHANGED <<params, error, m, iterations, balance, payment, last_rate,
                   port_rent, port_buy, break_even_month, history, loc, trace, result>>

SpecRate == RateInit /\ [][Resolve]_vars

\* ------------------------------------------------------------------------
\* Properties
\* ------------------------------------------------------------------------
\* the data model of ScenarioParams
ValidScenario(p) ==
    /\ p.purchase_price > 0
    /\ 0 <= p.down_payment /\ p.down_payment <= p.purchase_price
    /\ p.term_years > 0 /\ p.max_years > 0
    /\ p.rent_monthly >= 0 /\ p.maintenance_monthly >= 0
    /\ p.insurance_monthly >= 0 /\ p.other_owner_costs_monthly >= 0
    /\ 0 <= p.buy_closing_cost_pct /\ p.buy_closing_cost_pct <= SCALE
    /\ 0 <= p.sell_cost_pct /\ p.sell_cost_pct <= SCALE
    /\ ~RateRaises(p.fixed_mortgage_rate, p.variable_rate_schedule)

Finished == pc \in {"returned", "raised"}

\* C1: for every ScenarioParams that satisfies the data model (rates and growths
\* of any sign), simulate_break_even raises no error of any kind.
C1_NoRuntimeError == ValidScenario(params) => pc # "raised"

\* C2: a run that passes the configuration checks never has a month beyond
\* max_years*12 to run, every loop body either leaves the loop or adds one to
\* the number of bodies run, and that number never exceeds max_years*12 + 1; a
\* run that returns with a break-even month b has run b + 1 bodies, one that
\* returns without has run max_years*12 + 1.
C2_Bound ==
    /\ iterations <= params.max_years * MonthsPerYear + 1
    /\ pc = "loop" => m = iterations /\ m <= params.max_years * MonthsPerYear
    /\ pc = "returned" =>
          /\ iterations = loc.month + 1
          /\ IsNone(break_even_month) => iterations = params.max_years * MonthsPerYear + 1
          /\ ~IsNone(break_even_month) => iterations = Val(break_even_month) + 1

C2_Terminates ==
    /\ []C2_Bound
    /\ [][pc = "loop" => (Finished' \/ (pc' = "loop" /\ iterations' = iterations + 1))]_vars

C2_Witness ==
    /\ pc = "returned"
    /\ IsNone(break_even_month)
    /\ params.max_years = MaxYears
    /\ iterations = MaxYears * MonthsPerYear + 1

\* C3: whenever down_payment > purchase_price, and whenever fixed_mortgage_rate is
\* absent and variable_rate_schedule is absent or empty, the run ends with a
\* configuration error, no month simulated and no result; the two cases carry
\* different messages.
C3_ConfigErrors ==
    pc \in {"loop", "returned", "raised"} =>
       /\ params.down_payment > params.purchase_price =>
             /\ pc = "raised"
             /\ error = "ValueError: Down payment cannot exceed purchase price."
             /\ iterations = 0 /\ trace = << >> /\ history = << >> /\ IsNone(result)
       /\ ( /\ params.down_payment <= params.purchase_price
            /\ IsNone(params.fixed_mortgage_rate)
            /\ \/ IsNone(params.variable_rate_schedule)
               \/ params.variable_rate_schedule = Some(<< >>) ) =>
             /\ pc = "raised"
             /\ error = "ValueError: Provide either fixed_mortgage_rate or variable_rate_schedule."
             /\ iterations = 0 /\ trace = << >> /\ history = << >> /\ IsNone(result)

C3_Witness ==
    /\ pc = "raised"
    /\ params.down_payment <= params.purchase_price
    /\ IsNone(params.fixed_mortgage_rate)
    /\ params.variable_rate_schedule = Some(<< >>)
    /\ error = "ValueError: Provide either fixed_mortgage_rate or variable_rate_schedule."

\* C4: the returned break_even_month is the smallest simulated month at which
\* owner net worth >= renter net worth on the comparison basis; it is null exactly
\* when no month of 0..max_years*12 has that; break_even_years is null together
\* with it and is the month divided by 12 otherwise.
C4_FirstCrossing ==
    pc = "returned" =>
       LET r == Val(result)
           owner_ahead(month) == trace[month + 1][1] >= trace[month + 1][2]
       IN  /\ IsNone(r.break_even_month) =>
                /\ Len(trace) = params.max_years * MonthsPerYear + 1
                /\ \A month \in 0..(params.max_years * MonthsPerYear) : ~owner_ahead(month)
                /\ IsNone(r.break_even_years)
           /\ ~IsNone(r.break_even_month) =>
                LET b == Val(r.break_even_month)
                IN  /\ b \in 0..(params.max_years * MonthsPerYear)
                    /\ Len(trace) = b + 1
                    /\ owner_ahead(b)
                    /\ \A month \in 0..(b - 1) : ~owner_ahead(month)
                    /\ ~IsNone(r.break_even_years)
                    /\ Abs(Val(r.break_even_years) * MonthsPerYear - b * SCALE)
                          <= MonthsPerYear \div 2

C4_Witness ==
    /\ pc = "returned"
    /\ ~IsNone(Val(result).break_even_month)
    /\ Val(Val(result).break_even_month) > MonthsPerYear
    /\ Val(Val(result).break_even_month) % MonthsPerYear # 0

\* C5: in a returned result the months of the history rows are, in strictly
\* ascending order and once each, the multiples of 12 from 0 up to the month at
\* which the loop stopped, plus the break-even month.
C5_HistoryMonths ==
    pc = "returned" =>
       LET r == Val(result)
           h == r.history
           stop == loc.month
       IN  /\ \A i \in 1..(Len(h) - 1) : h[i].month < h[i + 1].month
           /\ {h[i].month : i \in 1..Len(h)}
                 = {mm \in 0..stop : mm % MonthsPerYear = 0}
                   \cup (IF IsNone(r.break_even_month) THEN {}
                         ELSE {Val(r.break_even_month)})

C5_Witness ==
    /\ pc = "returned"
    /\ ~IsNone(Val(result).break_even_month)
    /\ Val(Val(result).break_even_month) % MonthsPerYear # 0
    /\ Len(Val(result).history) >= 3

\* a rate query answered for a schedule, no fixed rate given
ScheduleQuery ==
    /\ pc = "resolved"
    /\ IsNone(Val(query).fixed_rate)
    /\ ~Falsy(Val(query).schedule)

SetMax(S) == CHOOSE x \in S : \A y \in S : y <= x
SetMin(S) == CHOOSE x \in S : \A y \in S : x <= y
Starts(s) == {s[i][1] : i \in 1..Len(s)}

\* the rate of the entry supplied last among those that start at month start
LastAt(s, start) == s[SetMax({i \in 1..Len(s) : s[i][1] = start})][2]
\* the rate of the entry supplied first among those that start at month start
FirstAt(s, start) == s[SetMin({i \in 1..Len(s) : s[i][1] = start})][2]

\* C6: with no fixed rate and a non-empty schedule in any input order, for every
\* month >= the smallest start_month rate_for_month returns the rate of the entry
\* with the greatest start_month <= month (the one supplied last, should several
\* entries share that start_month); for [(0,0.065),(24,0.075),(60,0.06)] months
\* 0..23 give 0.065, 24..59 give 0.075, 60 and later give 0.06.
C6_GreatestStart ==
    ScheduleQuery =>
       LET s == Val(Val(query).schedule)
           month == Val(query).month
       IN  /\ month >= SetMin(Starts(s)) =>
                /\ Val(answer).error = "none"
                /\ Val(answer).rate
                      = Some(LastAt(s, SetMax({st \in Starts(s) : st <= month})))
           /\ s = << <<0, 65000>>, <<24, 75000>>, <<60, 60000>> >> =>
                Val(answer).rate = Some(IF month < 24 THEN 65000
                                        ELSE IF month < 60 THEN 75000 ELSE 60000)

C6_Witness ==
    /\ ScheduleQuery
    /\ Len(Val(Val(query).schedule)) = 3
    /\ Val(Val(query).schedule)[1][1] > Val(Val(query).schedule)[2][1]
    /\ Val(Val(query).schedule)[2][1] < Val(Val(query).schedule)[3][1]
    /\ Val(query).month = Val(Val(query).schedule)[1][1]
    /\ Val(query).month > Val(Val(query).schedule)[3][1]
    /\ Val(answer).rate = Some(Val(Val(query).schedule)[1][2])
    /\ Val(answer).rate # Some(Val(Val(query).schedule)[3][2])

\* C7: with no fixed rate and a non-empty schedule, for every month smaller than
\* the smallest start_month rate_for_month raises nothing and returns the rate of
\* the first entry of the schedule sorted by start_month (the sort is stable: the
\* entry supplied first among those with the smallest start_month).
C7_BeforeFirstEntry ==
    ScheduleQuery =>
       LET s == Val(Val(query).schedule)
           month == Val(query).month
       IN  month < SetMin(Starts(s)) =>
              /\ Val(answer).error = "none"
              /\ Val(answer).rate = Some(FirstAt(s, SetMin(Starts(s))))

C7_Witness ==
    /\ ScheduleQuery
    /\ Len(Val(Val(query).schedule)) >= 2
    /\ Val(Val(query).schedule)[1][1] > Val(Val(query).schedule)[2][1]
    /\ Val(Val(query).schedule)[1][2] # Val(Val(query).schedule)[2][2]
    /\ Val(query).month < SetMin(Starts(Val(Val(query).schedule)))
    /\ Val(answer).rate = Some(Val(Val(query).schedule)[2][2])

\* the schedule with only the last-supplied entry of each start_month kept
RECURSIVE KeepLast(_)
KeepLast(s) ==
    IF s = << >> THEN << >>
    ELSE IF \E j \in 2..Len(s) : s[j][1] = s[1][1] THEN KeepLast(Tail(s))
    ELSE << s[1] >> \o KeepLast(Tail(s))

\* C8: duplicate start_months are resolved last-write-wins: for every schedule and
\* every month >= 0, rate_for_month returns what it returns on the schedule in
\* which only the last-supplied entry of each start_month is kept.
C8_LastWriteWins ==
    ScheduleQuery =>
       LET s == Val(Val(query).schedule)
           month == Val(query).month
       IN  Val(answer).rate = Some(rate_for_month(month, None, Some(KeepLast(s))))

Running == pc \in {"loop", "returned"}

\* C9: when fixed_mortgage_rate is supplied, with or without a schedule, the
\* effective rate of every month is the fixed rate and no recast occurs: the
\* payment is pmt(loan, fixed rate, term_months) in every month of the run and
\* every history row carries the fixed rate.
C9_FixedRateWins ==
    (Running /\ ~IsNone(params.fixed_mortgage_rate)) =>
       LET fixed == Val(params.fixed_mortgage_rate)
       IN  /\ payment = pmt(params.purchase_price - params.down_payment, fixed,
                            params.term_years * MonthsPerYear)
           /\ last_rate = fixed
           /\ iterations > 0 => (loc.current_rate = fixed /\ ~loc.recast)
           /\ \A i \in 1..Len(history) : history[i].mortgage_rate = fixed

C9_Witness ==
    /\ pc = "returned"
    /\ ~IsNone(params.fixed_mortgage_rate)
    /\ ~IsNone(params.variable_rate_schedule)
    /\ rate_for_month(loc.month, None, params.variable_rate_schedule)
          # Val(params.fixed_mortgage_rate)
    /\ loc.month < params.term_years * MonthsPerYear
    /\ payment > 0
    /\ Len(history) >= 2

\* C10: when down_payment equals purchase_price, for any rate source, the payment
\* is 0 and the mortgage balance is 0 in every month of the run, and the owner's
\* outflow is maintenance + insurance + other costs only.
C10_ZeroLoan ==
    (Running /\ params.down_payment = params.purchase_price) =>
       /\ payment = 0
       /\ balance = 0
       /\ \A i \in 1..Len(history) : history[i].mortgage_balance = 0
       /\ iterations > 0 =>
             /\ loc.interest = 0 /\ loc.principal_paid = 0
             /\ loc.owner_outflow
                   = grow_monthly(params.maintenance_monthly,
                                  params.maintenance_growth, loc.month)
                     + grow_monthly(params.insurance_monthly,
                                    params.insurance_growth, loc.month)
                     + grow_monthly(params.other_owner_costs_monthly,
                                    params.other_owner_costs_growth, loc.month)

C10_Witness ==
    /\ pc = "loop"
    /\ params.down_payment = params.purchase_price
    /\ IsNone(params.fixed_mortgage_rate)
    /\ loc.recast
    /\ loc.current_rate > 0
    /\ loc.month < params.term_years * MonthsPerYear
    /\ payment = 0 /\ balance = 0
    /\ loc.owner_outflow > 0

\* owner outflow has equalled rent in every month simulated so far
DiffZeroThroughout == iterations > 0 /\ \A i \in 1..Len(trace) : trace[i][3] = 0

ProceedsCoverOutlay(mm) ==
    LET value == MulF(params.purchase_price, Pow(SCALE + params.home_appreciation, mm))
    IN  value - MulF(value, params.sell_cost_pct)
           >= params.purchase_price
              + MulF(params.purchase_price, params.buy_closing_cost_pct)

BalanceAfter(i) == trace[i][4]
BalanceBefore(i) == IF i = 1 THEN L0 ELSE trace[i - 1][4]

\* x is 0 up to the rounding of the representation: less than one money unit for
\* each month of the term
Negligible(x) == 0 <= x /\ x <= term_months

BalanceWithinLoan == 0 <= balance /\ balance <= L0
BalanceNeverUp == \A i \in 1..Len(trace) : BalanceAfter(i) <= BalanceBefore(i)
BalanceFrozenAfterTerm ==
    \A i \in 1..Len(trace) : i > term_months => BalanceAfter(i) = BalanceBefore(i)
\* some month of the term had interest above the payment
ClampedInTerm == \E i \in 1..Len(trace) : trace[i][5]

\* C12 (as claimed): the balance stays within 0..loan, never increases from one
\* month to the next, does not change from month term_months on, and is 0 from
\* month term_months on.
C12_BalanceZeroAfterTerm ==
    Running =>
       /\ BalanceWithinLoan
       /\ BalanceNeverUp
       /\ BalanceFrozenAfterTerm
       /\ \A i \in 1..Len(trace) : i >= term_months => Negligible(BalanceAfter(i))

\* C12 (amended): the balance stays within 0..loan, never increases from one month
\* to the next and does not change from month term_months on; from month
\* term_months on it is 0 unless in some month of the term the interest exceeded
\* the payment, in which case principal reduction was clamped to 0 and the balance
\* may stay positive.
C12_BalanceFrozen ==
    Running =>
       /\ BalanceWithinLoan
       /\ BalanceNeverUp
       /\ BalanceFrozenAfterTerm
       /\ \A i \in 1..Len(trace) :
             i >= term_months => (Negligible(BalanceAfter(i)) \/ ClampedInTerm)
       /\ \A i \in 1..Len(trace) : trace[i][5] => BalanceAfter(i) = BalanceBefore(i)

C12_Witness ==
    /\ pc = "returned"
    /\ ClampedInTerm
    /\ loc.month > term_months
    /\ balance > term_months
    /\ balance < L0

\* a loop body runs to its end (it raises nothing)
MonthDone == pc = "loop" /\ pc' \in {"loop", "returned"}

\* C13: a month m whose effective rate differs from the last applied rate sets the
\* payment to the amortizing payment of the balance at the start of month m over
\* term_months - m months at the new rate, or to 0 when m >= term_months, and the
\* last applied rate to the new rate; every other month leaves both unchanged.
C13_RecastOnRateChange ==
    [][MonthDone =>
          LET new_rate == rate_for_month(m, params.fixed_mortgage_rate,
                                         params.variable_rate_schedule)
          IN  IF new_rate # last_rate
              THEN /\ payment' = IF m >= params.term_years * MonthsPerYear THEN 0
                                 ELSE pmt(balance, new_rate,
                                          params.term_years * MonthsPerYear - m)
                   /\ last_rate' = new_rate
              ELSE /\ payment' = payment
                   /\ last_rate' = last_rate]_vars

C13_Witness ==
    /\ Running
    /\ loc.recast
    /\ loc.month > 0
    /\ loc.months_remaining > 0
    /\ loc.months_remaining < params.term_years * MonthsPerYear
    /\ balance > 0
    /\ payment > 0
    /\ payment # pmt(L0, loc.current_rate, params.term_years * MonthsPerYear)
    /\ payment # pmt(L0, rate_for_month(0, None, params.variable_rate_schedule),
                     params.term_years * MonthsPerYear)
    /\ last_rate = loc.current_rate

\* the mortgage rate is the same in every month of the term
ConstantRate ==
    \A mm \in 0..(term_months - 1) :
       rate_for_month(mm, params.fixed_mortgage_rate, params.variable_rate_schedule)
          = rate_for_month(0, params.fixed_mortgage_rate, params.variable_rate_schedule)

\* the rate of the first month
TermRate ==
    rate_for_month(0, params.fixed_mortgage_rate, params.variable_rate_schedule)

\* a run on a loan at a constant rate that has simulated the last month of the term
FullTermAtConstantRate ==
    /\ Running
    /\ L0 > 0
    /\ ConstantRate
    /\ Len(trace) >= term_months

\* the principal reductions of the term sum to the loan: nothing is left after the
\* payment of month term_months - 1, something is before it
RepaidOverTerm ==
    /\ Negligible(BalanceAfter(term_months))
    /\ \A i \in 1..term_months : ~Negligible(BalanceBefore(i))

\* at rate 0 every month of the term takes exactly loan / term_months off the
\* balance (loans the representation divides without remainder)
EqualReductions ==
    (TermRate = 0 /\ L0 % term_months = 0) =>
       /\ \A i \in 1..term_months :
             (BalanceBefore(i) - BalanceAfter(i)) * term_months = L0
       /\ BalanceAfter(term_months) = 0

\* C14 (as claimed): with a constant mortgage rate and a run that reaches the end
\* of the term, the principal reductions of months 0..term_months-1 sum to the
\* loan principal: the balance is 0 after the payment of month term_months-1 and
\* positive before it; with rate 0 every month reduces it by principal/term_months.
C14_PrincipalRepaid == FullTermAtConstantRate => (RepaidOverTerm /\ EqualReductions)

\* C14 (amended): the same for a constant mortgage rate above -1200% a year (a
\* monthly rate above -1).
C14_PrincipalRepaidAboveMinusOne ==
    (FullTermAtConstantRate /\ monthly_rate(TermRate) > -SCALE) =>
       (RepaidOverTerm /\ EqualReductions)

C14_Witness ==
    /\ FullTermAtConstantRate
    /\ TermRate > 0
    /\ term_months = MaxTermYears * MonthsPerYear
    /\ loc.month = term_months - 1
    /\ loc.principal_paid > 0
    /\ loc.interest > 0
    /\ balance < loc.principal_paid

C14_WitnessZeroRate ==
    /\ FullTermAtConstantRate
    /\ TermRate = 0
    /\ loc.month = term_months - 1
    /\ loc.principal_paid * term_months = L0
    /\ balance = 0

\* C15: every simulated month multiplies both portfolios by
\* 1 + investment_return/12 and then adds cash to one of them: owner outflow - rent
\* to the renter's and nothing to the owner's when owner outflow > rent, and
\* rent - owner outflow to the owner's and nothing to the renter's otherwise; no
\* cash flow lowers a portfolio.
C15_OneSideInvests ==
    [][MonthDone =>
          LET grown_rent == MulF(port_rent, SCALE + RoundDiv(params.investment_return,
                                                             MonthsPerYear))
              grown_buy == MulF(port_buy, SCALE + RoundDiv(params.investment_return,
                                                           MonthsPerYear))
              outflow == loc'.owner_outflow
              rent == loc'.rent_t
          IN  /\ loc'.diff = outflow - rent
              /\ outflow > rent =>
                    (port_rent' = grown_rent + (outflow - rent) /\ port_buy' = grown_buy)
              /\ outflow <= rent =>
                    (port_buy' = grown_buy + (rent - outflow) /\ port_rent' = grown_rent)
              /\ port_rent' >= grown_rent
              /\ port_buy' >= grown_buy]_vars

C15_Witness ==
    /\ Running
    /\ params.investment_return > 0
    /\ loc.month > term_months
    /\ loc.diff < 0
    /\ port_buy > -loc.diff
    /\ port_rent > params.down_payment
                      + MulF(params.purchase_price, params.buy_closing_cost_pct)
                      + loc.owner_outflow

\* C16: a break-even month, once detected, ends the loop in that same iteration
\* after its row is recorded: no later month is simulated, the last history row of
\* a result with a break-even month is the row of that month, with
\* nw_buy >= nw_rent in it and nw_buy < nw_rent in every earlier row.
C16_StopsAtBreakEven ==
    ~IsNone(break_even_month) =>
       LET b == Val(break_even_month)
           h == Val(result).history
       IN  /\ pc = "returned"
           /\ loc.month = b
           /\ iterations = b + 1
           /\ Len(trace) = b + 1
           /\ Val(result).break_even_month = Some(b)
           /\ h = history
           /\ Len(h) >= 1
           /\ h[Len(h)].month = b
           /\ h[Len(h)].nw_buy >= h[Len(h)].nw_rent
           /\ h[Len(h)].nw_buy = loc.nw_buy_cmp
           /\ h[Len(h)].nw_rent = loc.nw_rent_cmp
           /\ \A i \in 1..(Len(h) - 1) :
                 h[i].month < b /\ h[i].nw_buy < h[i].nw_rent

C16_Witness ==
    /\ pc = "returned"
    /\ ~IsNone(break_even_month)
    /\ Val(break_even_month) < params.max_years * MonthsPerYear
    /\ Val(break_even_month) > MonthsPerYear
    /\ Val(break_even_month) % MonthsPerYear = 1
    /\ Len(history) = 3
    /\ history[2].month = MonthsPerYear
    /\ history[2].nw_buy < history[2].nw_rent
    /\ history[3].nw_buy > history[3].nw_rent

\* a month of a run that compares in real dollars, its deflator positive
RealMonth ==
    /\ Running
    /\ iterations > 0
    /\ params.report_real
    /\ params.inflation > -SCALE

\* C17: two runs whose parameters differ only in report_real (inflation > -1) have
\* the same break_even_month, checkpoint months and non-net-worth row fields.
\* Nothing but the two compared net worths and what the break-even test makes of
\* them depends on report_real, so the run in nominal dollars goes through the
\* months of this run with the same nominal net worths, and the two runs agree
\* exactly when in every month the test on the deflated pair says what the test on
\* the nominal pair says.
C17_DeflationKeepsBreakEven ==
    RealMonth =>
       ( (loc.nw_buy_cmp >= loc.nw_rent_cmp) <=> (loc.nw_buy >= loc.nw_rent) )

==========================================================================
